---- MODULE Spec2Model ----
(***************************************************************************)
(* A model of behavior_event: the enumerated field type (EnumField and its *)
(* subclasses), the entity base class (BaseModel.save with                 *)
(* only_save_dirty), the nine entity tables with their declared            *)
(* constraints, and the connection factory (get_db_connection).            *)
(*                                                                         *)
(* Values: an absent value (Python None, SQL NULL) is the empty tuple, a   *)
(* present value v is the one-element tuple <<v>>.  A Python value held by *)
(* an enum field is a record: a text (kind "str") or a member of an Enum   *)
(* class (kind "member").  Timestamps, dates and keys are integers; a      *)
(* decimal is an integer count of 10^-InputPlaces.                         *)
(***************************************************************************)
EXTENDS Integers, Sequences, FiniteSets, TLC

VARIABLES entity, db, seq, inst, clock, ef, df, cn

vars == <<entity, db, seq, inst, clock, ef, df, cn>>

None == <<>>
Some(v) == <<v>>
IsNone(o) == o = <<>>
Val(o) == o[1]

(***************************************************************************)
(* The Enum classes: each is the sequence of its declarations, in source    *)
(* order, a declaration being <<name, code>>.                               *)
(***************************************************************************)
ClientTypeField ==
  << <<"FINANCIAL_INSTITUTION", 10>>, <<"INBOUND_DATA_PARTNER", 20>>,
     <<"OUTBOUND_BEHAVIOR_POINT_ENGINE", 30>>, <<"DATA_WAREHOUSE_STAGING", 40>> >>

StatusField ==
  << <<"PENDING", 10>>, <<"ACTIVE", 20>>, <<"DISABLED", 30>> >>

EventFrequencyField ==
  << <<"EVERY_MINUTE", 5>>, <<"HOURLY", 10>>, <<"DAILY", 20>>, <<"WEEKLY", 30>>,
     <<"MONTHLY", 40>>, <<"QUARTERLY", 50>>, <<"YEARLY", 60>> >>

BehaviorTypeField ==
  << <<"MINIMUM_ACCOUNT_BALANCE", 10>>, <<"MAINTAIN_ACCOUNT_BALANCE", 10>>,
     <<"ADOPT_E_STATEMENT", 30>>, <<"OPEN_SAFE_DEPOSIT_BOX", 40>> >>

AccountTypeField ==
  << <<"ALL", 1>>, <<"INTERNAL", 10>>, <<"CHECKING", 20>>, <<"CREDIT_CARD", 30>>,
     <<"SAVING", 40>>, <<"MONEY_MARKET", 50>>, <<"MORTGAGE", 60>>, <<"LOAN", 70>>,
     <<"BUSINESS_LOAN", 70>>, <<"PERSONAL_LOAN", 70>> >>

DestinationSystemField ==
  << <<"DATA_WAREHOUSE_STAGING", 10>>, <<"BEHAVIOR_POINT_ENGINE", 20>> >>

BatchStatusField ==
  << <<"NEW", 10>>, <<"PENDING", 10>>, <<"STARTED", 20>>, <<"DELIVERED", 30>>,
     <<"SUCCESS", 40>>, <<"PARTIAL_FAILURE", 50>>, <<"FAILURE", 60>> >>

EnumClasses ==
  [ ClientTypeField        |-> ClientTypeField,
    StatusField            |-> StatusField,
    EventFrequencyField    |-> EventFrequencyField,
    BehaviorTypeField      |-> BehaviorTypeField,
    AccountTypeField       |-> AccountTypeField,
    DestinationSystemField |-> DestinationSystemField,
    BatchStatusField       |-> BatchStatusField ]

EnumClassNames == DOMAIN EnumClasses

\* The names a class declares (aliases included): the keys of cls.__members__.
DeclaredNames(cls) == { EnumClasses[cls][i][1] : i \in DOMAIN EnumClasses[cls] }

\* Enum class creation: a declaration whose code equals the code of an
\* earlier declaration adds no member, its name becomes an alias of the
\* first declaration with that code.  cls[name] is that first declaration.
CanonicalName(cls, name) ==
  LET decl == EnumClasses[cls]
      i == CHOOSE k \in DOMAIN decl : decl[k][1] = name
      j == CHOOSE k \in DOMAIN decl :
             /\ decl[k][2] = decl[i][2]
             /\ \A m \in DOMAIN decl : decl[m][2] = decl[i][2] => k <= m
  IN decl[j][1]


PyStr(s) == [kind |-> "str", cls |-> "", s |-> s]
PyMember(cls, name) == [kind |-> "member", cls |-> cls, s |-> name]

\* peewee's coerce_to_unicode: a text is itself, anything else is str(value);
\* str() of an Enum member is "Class.NAME".
coerce_to_unicode(v) ==
  IF v.kind = "str" THEN v.s ELSE v.cls \o "." \o v.s

\* EnumField.db_value: None passes, every other value is coerced to text.
db_value(value) ==
  IF IsNone(value) THEN None ELSE Some(coerce_to_unicode(Val(value)))

\* A mutant of python_value: an unknown stored text decodes to None.
python_value_lenient(cls, value) ==
  IF IsNone(value) \/ Val(value) \notin DeclaredNames(cls)
    THEN [ok |-> TRUE, val |-> None]
    ELSE [ok |-> TRUE, val |-> Some(PyMember(cls, CanonicalName(cls, Val(value))))]

\* EnumField.python_value: None passes, a text is looked up by name in the
\* class (cls[text]); a text that is no declared name raises KeyError
\* (ok = FALSE).  The stored value is a text, on which coerce_to_unicode is
\* the identity.
python_value(cls, value) ==
  IF IsNone(value) THEN [ok |-> TRUE, val |-> None]
  ELSE LET text == coerce_to_unicode(PyStr(Val(value)))
       IN IF text \in DeclaredNames(cls)
            THEN [ok |-> TRUE, val |-> Some(PyMember(cls, CanonicalName(cls, text)))]
            ELSE [ok |-> FALSE, val |-> None]

(***************************************************************************)
(* The enumerated field on its own: a value is encoded for storage          *)
(* (EnumWrite), or a stored text is found in the column (EnumStore), and    *)
(* the stored value is decoded (EnumRead).                                  *)
(***************************************************************************)
BadTexts == {"", "pending", "UNKNOWN", "10", "StatusField.PENDING"}

AllNames == UNION { DeclaredNames(c) : c \in EnumClassNames }

EnumIdle ==
  [phase |-> "idle", src |-> "none", cls |-> "StatusField", py |-> None,
   stored |-> None, out |-> None, err |-> ""]

EnumWriteInputs(cls) ==
  {None} \cup { Some(PyStr(n)) : n \in DeclaredNames(cls) \cup BadTexts }
         \cup { Some(PyMember(cls, CanonicalName(cls, n))) : n \in DeclaredNames(cls) }

EnumWrite(cls, v) ==
  /\ ef' = [phase |-> "stored", src |-> "write", cls |-> cls, py |-> v,
            stored |-> db_value(v), out |-> None, err |-> ""]
  /\ UNCHANGED <<entity, db, seq, inst, clock, df, cn>>

EnumStore(cls, text) ==
  /\ ef' = [phase |-> "stored", src |-> "raw", cls |-> cls, py |-> None,
            stored |-> text, out |-> None, err |-> ""]
  /\ UNCHANGED <<entity, db, seq, inst, clock, df, cn>>

EnumRead ==
  /\ ef.phase = "stored"
  /\ LET r == python_value(ef.cls, ef.stored)
     IN ef' = [ef EXCEPT !.phase = "read", !.out = r.val,
                         !.err = IF r.ok THEN "" ELSE "KeyError"]
  /\ UNCHANGED <<entity, db, seq, inst, clock, df, cn>>

(***************************************************************************)
(* The fixed-point field on its own.  DecimalField(decimal_places = 4,      *)
(* auto_round = True): db_value quantizes to decimal_places with the        *)
(* default rounding of the decimal context, ROUND_HALF_EVEN.                *)
(***************************************************************************)
decimal_places == 4
ExtraDigits == 1
MaxDec == 45
InputPlaces == decimal_places + ExtraDigits

RECURSIVE Pow10(_)
Pow10(n) == IF n = 0 THEN 1 ELSE 10 * Pow10(n - 1)

\* One unit of the last stored decimal place, in units of 10^-InputPlaces.
Quantum == Pow10(InputPlaces - decimal_places)

Abs(x) == IF x < 0 THEN -x ELSE x

\* Decimal.quantize(10^-decimal_places, ROUND_HALF_EVEN).
quantize(v) ==
  LET q == v \div Quantum
      r == v % Quantum
  IN IF 2 * r < Quantum THEN q * Quantum
     ELSE IF 2 * r > Quantum THEN (q + 1) * Quantum
     ELSE IF q % 2 = 0 THEN q * Quantum ELSE (q + 1) * Quantum

\* A mutant of DecimalDbValue: auto_round left off, the value goes as it is.
DecimalDbValueUnrounded(value) == value

\* DecimalField.db_value with auto_round: None passes, zero is Decimal(0),
\* anything else is quantized.
DecimalDbValue(value) ==
  IF IsNone(value) THEN None
  ELSE IF Val(value) = 0 THEN Some(0)
  ELSE Some(quantize(Val(value)))

\* DecimalField.python_value: the driver's Decimal is returned as it is.
DecimalPythonValue(value) == value

\* 500.0000 and 12.3456, and 12.34565, a tie between 12.3456 and 12.3457.
DecimalInputs ==
  {None} \cup { Some(v) : v \in (-MaxDec)..MaxDec }
         \cup { Some(500 * Pow10(InputPlaces)), Some(123456 * Quantum),
                Some(123456 * Quantum + Quantum \div 2) }

DecimalFields == {"balance_floor", "quantity"}

DecIdle ==
  [phase |-> "idle", field |-> "balance_floor", v |-> None, stored |-> None,
   out |-> None]

DecWrite(f, v) ==
  /\ df' = [phase |-> "stored", field |-> f, v |-> v,
            stored |-> DecimalDbValue(v), out |-> None]
  /\ UNCHANGED <<entity, db, seq, inst, clock, ef, cn>>

DecRead ==
  /\ df.phase = "stored"
  /\ df' = [df EXCEPT !.phase = "read", !.out = DecimalPythonValue(df.stored)]
  /\ UNCHANGED <<entity, db, seq, inst, clock, ef, cn>>


(***************************************************************************)
(* The connection factory.  get_db_connection builds a PostgresqlDatabase   *)
(* handle from db, user, passwd, host and port; the autocommit argument is  *)
(* not passed on.  Building the handle opens no connection: a connection is *)
(* attempted when an entity operation first uses the handle.                *)
(***************************************************************************)
MaxAttempts == 2

ConfInputs ==
  [db : {"events", "nodb"}, user : {"etl", "eve"}, passwd : {"secret", "wrong"},
   host : {"dbhost", "nohost"}, port : {"5432"}, autocommit : BOOLEAN]

NoHandle == [database |-> "", user |-> "", password |-> "", host |-> "", port |-> ""]

\* The server accepts a connection when it is up and the handle names its
\* host and database with the credentials of its one account.
Accepts(server_up, h) ==
  /\ server_up
  /\ h.host = "dbhost" /\ h.port = "5432" /\ h.database = "events"
  /\ h.user = "etl" /\ h.password = "secret"

ConnIdle ==
  [last |-> "none", server_up |-> TRUE, handle |-> NoHandle, asked_up |-> TRUE,
   attempts |-> 0, uses |-> 0, connected |-> FALSE, err |-> ""]

\* A mutant of PostgresqlDatabase: the handle connects as it is built.
PostgresqlDatabaseEager(c, conf) ==
  [c EXCEPT !.last = "get_db_connection",
            !.handle = [database |-> conf.db, user |-> conf.user,
                        password |-> conf.passwd, host |-> conf.host,
                        port |-> conf.port],
            !.asked_up = c.server_up,
            !.attempts = 1, !.uses = 0,
            !.connected = Accepts(c.server_up,
                                  [database |-> conf.db, user |-> conf.user,
                                   password |-> conf.passwd, host |-> conf.host,
                                   port |-> conf.port]),
            !.err = IF Accepts(c.server_up,
                               [database |-> conf.db, user |-> conf.user,
                                password |-> conf.passwd, host |-> conf.host,
                                port |-> conf.port])
                      THEN "" ELSE "OperationalError"]

\* PostgresqlDatabase(db, user=user, password=passwd, host=host, port=port):
\* the handle records its parameters and connects to nothing.
PostgresqlDatabase(c, conf) ==
  [c EXCEPT !.last = "get_db_connection",
            !.handle = [database |-> conf.db, user |-> conf.user,
                        password |-> conf.passwd, host |-> conf.host,
                        port |-> conf.port],
            !.asked_up = c.server_up,
            !.attempts = 0, !.uses = 0, !.connected = FALSE, !.err = ""]

get_db_connection(conf) ==
  /\ cn' = PostgresqlDatabase(cn, conf)
  /\ UNCHANGED <<entity, db, seq, inst, clock, ef, df>>

\* An entity operation on the handle (Meta.database): an unconnected handle
\* attempts one connection; a refusal is raised to the caller.
UseHandle ==
  /\ cn.last # "none"
  /\ cn.uses < MaxAttempts
  /\ cn' = IF cn.connected
            THEN [cn EXCEPT !.last = "use", !.uses = @ + 1, !.err = ""]
            ELSE [cn EXCEPT !.last = "use", !.uses = @ + 1, !.attempts = @ + 1,
                            !.asked_up = cn.server_up,
                            !.connected = Accepts(cn.server_up, cn.handle),
                            !.err = IF Accepts(cn.server_up, cn.handle)
                                      THEN "" ELSE "OperationalError"]
  /\ UNCHANGED <<entity, db, seq, inst, clock, ef, df>>

\* The database server goes down or comes up.
ServerFlip ==
  /\ cn' = [cn EXCEPT !.server_up = ~@]
  /\ UNCHANGED <<entity, db, seq, inst, clock, ef, df>>


(***************************************************************************)
(* The entity tables.  A field is its declaration: name, kind (the field    *)
(* class; for an enum field the Enum class), null, unique, default ("" for  *)
(* none, "now" for DT.now) and, for a foreign key, the table referenced.    *)
(* The primary key of every table is its id, drawn from the table's         *)
(* sequence.                                                                *)
(***************************************************************************)
F(name, kind, null, unique, default, rel) ==
  [name |-> name, kind |-> kind, null |-> null, unique |-> unique,
   default |-> default, rel |-> rel]

Inserted == F("inserted", "datetime", FALSE, FALSE, "now", "")
Updated == F("updated", "datetime", FALSE, FALSE, "now", "")

Client ==
  << F("title", "char", FALSE, TRUE, "", ""),
     F("type", "ClientTypeField", FALSE, FALSE, "", ""),
     F("status", "StatusField", FALSE, FALSE, "PENDING", ""),
     Inserted, Updated >>

EventType ==
  << F("title", "char", FALSE, TRUE, "", ""),
     F("description", "char", FALSE, FALSE, "", ""),
     F("behavior_type", "BehaviorTypeField", FALSE, FALSE, "", ""),
     F("frequency", "EventFrequencyField", FALSE, FALSE, "", ""),
     F("stubbed_extract_script", "text", FALSE, FALSE, "", ""),
     Inserted, Updated >>

ClientConfig ==
  << F("client_id", "fk", FALSE, FALSE, "", "clients"),
     F("event_type_id", "fk", FALSE, FALSE, "", "event_types"),
     F("effective_date", "date", FALSE, FALSE, "", ""),
     F("expiration_date", "date", TRUE, FALSE, "", ""),
     F("status", "StatusField", FALSE, FALSE, "PENDING", ""),
     F("account_type", "AccountTypeField", FALSE, FALSE, "", ""),
     F("product_code", "char", TRUE, FALSE, "", ""),
     F("balance_floor", "decimal", TRUE, FALSE, "", ""),
     Inserted, Updated >>

Destination ==
  << F("destination_system", "DestinationSystemField", FALSE, FALSE, "", ""),
     Inserted, Updated >>

DestinationConfig ==
  << F("destination_id", "fk", FALSE, FALSE, "", "destinations"),
     F("key", "char", TRUE, FALSE, "", ""),
     F("value", "char", TRUE, FALSE, "", ""),
     Inserted, Updated >>

EventBatch ==
  << F("client_config_id", "fk", FALSE, FALSE, "", "client_configs"),
     F("status", "BatchStatusField", FALSE, FALSE, "", ""),
     F("delivery_system_event_batch_id", "int", TRUE, FALSE, "", ""),
     Inserted, Updated >>

EventBatchDelivery ==
  << F("event_batch_id", "fk", FALSE, FALSE, "", "batches"),
     F("status", "BatchStatusField", FALSE, FALSE, "", ""),
     F("status_message", "text", FALSE, FALSE, "", ""),
     Inserted, Updated >>

Event ==
  << F("event_batch_id", "fk", FALSE, FALSE, "", "batches"),
     F("quantity", "decimal", FALSE, FALSE, "", ""),
     F("event_timestamp", "datetime", FALSE, FALSE, "", ""),
     Inserted, Updated >>

EventBatchDeliveryErrorEvent ==
  << F("event_batch_delivery_id", "fk", FALSE, FALSE, "", "event_batch_deliveries"),
     F("event_id", "fk", FALSE, FALSE, "", "events"),
     Inserted, Updated >>

\* The tables by their db_table names.
Schema ==
  [ clients                           |-> Client,
    event_types                       |-> EventType,
    client_configs                    |-> ClientConfig,
    destinations                      |-> Destination,
    destination_configs               |-> DestinationConfig,
    batches                           |-> EventBatch,
    event_batch_deliveries            |-> EventBatchDelivery,
    events                            |-> Event,
    event_batch_delivery_error_events |-> EventBatchDeliveryErrorEvent ]

Tables == DOMAIN Schema

FieldsOf == [t \in Tables |-> { Schema[t][i] : i \in DOMAIN Schema[t] }]
Fields(t) == FieldsOf[t]
FieldNamesOf == [t \in Tables |-> { f.name : f \in FieldsOf[t] }]
FieldNames(t) == FieldNamesOf[t]
FieldOf ==
  [t \in Tables |->
     [n \in FieldNamesOf[t] |-> CHOOSE f \in FieldsOf[t] : f.name = n]]
Field(t, name) == FieldOf[t][name]
IsEnum(f) == f.kind \in EnumClassNames

\* A field's db_value: the enum and decimal fields convert, the others
\* pass their value on.
FieldDbValue(f, v) ==
  IF IsEnum(f) THEN db_value(v)
  ELSE IF f.kind = "decimal" THEN DecimalDbValue(v)
  ELSE v

\* A field's python_value, with ok = FALSE when it raises.
FieldPythonValue(f, v) ==
  IF IsEnum(f) THEN python_value(f.kind, v)
  ELSE IF f.kind = "decimal" THEN [ok |-> TRUE, val |-> DecimalPythonValue(v)]
  ELSE [ok |-> TRUE, val |-> v]


(***************************************************************************)
(* The values the processes write.  BaseKwargs is the end-to-end scenario   *)
(* (every row refers to the parents with key 1); Overrides are the other    *)
(* values a field is given, among them a title already taken, a parent key  *)
(* that may not exist, an enum name that shares its code with an earlier    *)
(* name, and decimals with more than decimal_places places.                 *)
(***************************************************************************)
BaseKwargs ==
  [ clients |->
      [title |-> Some("Acme Bank"), type |-> Some(PyStr("FINANCIAL_INSTITUTION")),
       status |-> Some(PyStr("PENDING"))],
    event_types |->
      [title |-> Some("Maintain Balance"), description |-> Some("balance kept"),
       behavior_type |-> Some(PyStr("MAINTAIN_ACCOUNT_BALANCE")),
       frequency |-> Some(PyStr("MONTHLY")), stubbed_extract_script |-> Some("--")],
    client_configs |->
      [client_id |-> Some(1), event_type_id |-> Some(1), effective_date |-> Some(1),
       account_type |-> Some(PyStr("CHECKING")),
       balance_floor |-> Some(500 * Pow10(InputPlaces))],
    destinations |->
      [destination_system |-> Some(PyStr("DATA_WAREHOUSE_STAGING"))],
    destination_configs |->
      [destination_id |-> Some(1), key |-> Some("k"), value |-> Some("v")],
    batches |->
      [client_config_id |-> Some(1), status |-> Some(PyStr("NEW"))],
    event_batch_deliveries |->
      [event_batch_id |-> Some(1), status |-> Some(PyStr("STARTED")),
       status_message |-> Some("")],
    events |->
      [event_batch_id |-> Some(1), quantity |-> Some(123456 * Quantum),
       event_timestamp |-> Some(0)],
    event_batch_delivery_error_events |->
      [event_batch_delivery_id |-> Some(1), event_id |-> Some(1)] ]

Overrides ==
  [ clients |->
      { <<"title", Some("Beta Credit Union")>>, <<"status", Some(PyStr("ACTIVE"))>> },
    event_types |->
      { <<"title", Some("Adopt E-Statement")>>,
        <<"behavior_type", Some(PyStr("ADOPT_E_STATEMENT"))>> },
    client_configs |->
      { <<"client_id", Some(2)>>, <<"event_type_id", Some(2)>>,
        <<"account_type", Some(PyStr("BUSINESS_LOAN"))>>,
        <<"balance_floor", Some(500 * Pow10(InputPlaces) + Quantum \div 2 + 1)>> },
    destinations |->
      { <<"destination_system", Some(PyStr("BEHAVIOR_POINT_ENGINE"))>> },
    destination_configs |->
      { <<"destination_id", Some(2)>>, <<"value", None>> },
    batches |->
      { <<"client_config_id", Some(2)>>, <<"status", Some(PyStr("PENDING"))>> },
    event_batch_deliveries |->
      { <<"event_batch_id", Some(2)>>, <<"status", Some(PyStr("FAILURE"))>> },
    events |->
      { <<"event_batch_id", Some(2)>>,
        <<"quantity", Some(123456 * Quantum + Quantum \div 2)>> },
    event_batch_delivery_error_events |->
      { <<"event_batch_delivery_id", Some(2)>>, <<"event_id", Some(2)>> } ]

\* The keyword arguments of a constructor call: the scenario's, or the
\* scenario's with one field given another value.
Kwargs(t) ==
  {BaseKwargs[t]} \cup { (o[1] :> o[2]) @@ BaseKwargs[t] : o \in Overrides[t] }

\* The fields assigned to a stored record: a title and a status, a parent
\* key, a decimal.
Assigned ==
  [ clients |-> {"title", "status"},
    event_types |-> {"title", "behavior_type"},
    client_configs |-> {"client_id", "balance_floor"},
    destinations |-> {"destination_system"},
    destination_configs |-> {"destination_id", "value"},
    batches |-> {"client_config_id", "status"},
    event_batch_deliveries |-> {"event_batch_id", "status"},
    events |-> {"event_batch_id", "quantity"},
    event_batch_delivery_error_events |-> {"event_batch_delivery_id", "event_id"} ]

\* The assignments made to a stored record: a field is given its value of
\* the scenario or its other value.
Assignments(t) ==
  { o \in Overrides[t] : o[1] \in Assigned[t] }
    \cup { <<f, BaseKwargs[t][f]>> : f \in Assigned[t] }

(***************************************************************************)
(* The database.  db[t] maps the keys of table t to its rows, a row mapping *)
(* every column to its stored value; seq[t] is the last value of the        *)
(* table's key sequence.  A statement that violates a declared constraint   *)
(* changes nothing and raises IntegrityError.                               *)
(***************************************************************************)
NoRows == [i \in {} |-> None]
NoData == [f \in {} |-> None]

\* The row an INSERT of the field dictionary fd makes: a column that is
\* not in fd is NULL.
RowOf(t, fd) ==
  [c \in FieldNames(t) |->
     IF c \in DOMAIN fd THEN FieldDbValue(Field(t, c), fd[c]) ELSE None]

\* The row an UPDATE of the field dictionary fd leaves.
RowUpdated(t, row, fd) ==
  [c \in FieldNames(t) |->
     IF c \in DOMAIN fd THEN FieldDbValue(Field(t, c), fd[c]) ELSE row[c]]

\* null=False: the column holds a value.
NotNullOK(t, row) ==
  \A f \in Fields(t) : ~f.null => ~IsNone(row[f.name])

\* A mutant of UniqueOK: the unique index is missing.
UniqueUnchecked(d, t, id, row) == TRUE

\* unique=True: no other row of the table holds the same value.
UniqueOK(d, t, id, row) ==
  \A f \in Fields(t) : f.unique =>
    \A j \in DOMAIN d[t] :
      (Some(j) # id /\ ~IsNone(row[f.name])) => d[t][j][f.name] # row[f.name]

\* A mutant of ForeignKeysOK: the foreign-key constraints are missing.
ForeignKeysUnchecked(d, t, row) == TRUE

\* ForeignKeyField: the value is the key of a row of the table referenced.
ForeignKeysOK(d, t, row) ==
  \A f \in Fields(t) : (f.kind = "fk" /\ ~IsNone(row[f.name])) =>
    Val(row[f.name]) \in DOMAIN d[f.rel]

ConstraintsOK(d, t, id, row) ==
  NotNullOK(t, row) /\ UniqueOK(d, t, id, row) /\ ForeignKeysOK(d, t, row)

\* The scenario's rows, each inserted with key 1 at time 0.
ScenarioRow(t) ==
  RowOf(t, BaseKwargs[t] @@
           [f \in {g.name : g \in {h \in Fields(t) : h.default # ""}} |->
              IF Field(t, f).default = "now" THEN Some(0)
              ELSE Some(PyStr(Field(t, f).default))])

EmptyDb == [t \in Tables |-> NoRows]
ScenarioDb == [t \in Tables |-> (1 :> ScenarioRow(t))]


(***************************************************************************)
(* The processes and their records.  inst[w] is the record process w holds: *)
(* its table t ("" when it holds none), its key id, its field values data   *)
(* (_data), its modified fields dirty (_dirty); pc is "stamped" between the *)
(* two statements of BaseModel.save; stamp is the time save read, force its *)
(* force_insert argument; op, written and err are the outcome of the last   *)
(* save (the statement, its columns, the exception raised); origin tells    *)
(* how the record came to be as it is; sets counts the assignments the      *)
(* process has made, held the records it has built or loaded.  clock is the *)
(* time DT.now() returns; time passes between two saves.  A run is bounded  *)
(* in the calls the processes make (MaxCalls).                              *)
(***************************************************************************)
Writers == {"w1", "w2"}
MaxCalls == 5

\* The records the processes have built or loaded, and the assignments they
\* have made, so far.
Held == inst["w1"].held + inst["w2"].held
Sets == inst["w1"].sets + inst["w2"].sets
\* The calls made so far: a record built or loaded, an assignment, a save.
Calls == Held + Sets + clock
\* The processes run the same code: the one that takes a record first is
\* called w1.
Started(w) == w = "w1" \/ inst["w1"].held > 0

NoInstance ==
  [t |-> "", id |-> None, data |-> NoData, dirty |-> {}, pc |-> "idle",
   force |-> FALSE, stamp |-> 0, err |-> "", op |-> "none", written |-> {},
   origin |-> "none", sets |-> 0, held |-> 0]

\* Model.__init__: the defaults (a callable default is called), then the
\* keyword arguments assigned; every field given a value is dirty.
get_default_dict(t, now) ==
  [f \in {g.name : g \in {h \in Fields(t) : h.default # ""}} |->
     IF Field(t, f).default = "now" THEN Some(now)
     ELSE IF IsEnum(Field(t, f)) THEN Some(PyStr(Field(t, f).default))
     ELSE Some(Field(t, f).default)]

NewInstance(t, kw, now) ==
  [NoInstance EXCEPT !.t = t, !.data = kw @@ get_default_dict(t, now),
                     !.dirty = DOMAIN kw \cup DOMAIN get_default_dict(t, now),
                     !.origin = "new"]

\* A mutant of StampUpdated: the time is put into _data directly, and the
\* field is not marked dirty.
StampUpdatedQuietly(i, now) ==
  [i EXCEPT !.data = ("updated" :> Some(now)) @@ @]

\* A mutant of StampUpdated: save does not touch updated.
StampNothing(i, now) == i

\* self.updated = DT.now(): the assignment stores the value and marks the
\* field dirty.
StampUpdated(i, now) ==
  [i EXCEPT !.data = ("updated" :> Some(now)) @@ @,
            !.dirty = @ \cup {"updated"}]

\* A mutant of FieldDict: only_save_dirty is off, every field is written.
FieldDictAll(i) == i.data

\* The fields Model.save writes: with only_save_dirty the dirty ones, all
\* of them under force_insert.
FieldDict(i) ==
  IF i.force THEN i.data
  ELSE [f \in DOMAIN i.data \cap i.dirty |-> i.data[f]]

\* Model.get(id == key): the row's columns decoded by their fields.
Decoded(t, row) == [c \in FieldNames(t) |-> FieldPythonValue(Field(t, c), row[c])]

\* cls(**kw): a process builds a record of the entity.
New(w, kw) ==
  /\ inst[w].pc = "idle"
  /\ Calls < MaxCalls
  /\ Started(w)
  /\ inst' = [inst EXCEPT ![w] =
       [NewInstance(entity, kw, clock) EXCEPT !.held = inst[w].held + 1,
                                              !.sets = inst[w].sets]]
  /\ UNCHANGED <<entity, db, seq, clock, ef, df, cn>>

\* A process loads the row with key id; a stored value its field cannot
\* decode raises, and the process keeps what it held.
Load(w, id) ==
  /\ inst[w].pc = "idle"
  /\ Calls < MaxCalls
  /\ Started(w)
  /\ id \in DOMAIN db[entity]
  /\ LET dec == Decoded(entity, db[entity][id])
     IN inst' = [inst EXCEPT ![w] =
          IF \A c \in DOMAIN dec : dec[c].ok
            THEN [NoInstance EXCEPT !.t = entity, !.id = Some(id),
                                    !.data = [c \in DOMAIN dec |-> dec[c].val],
                                    !.origin = "loaded", !.held = inst[w].held + 1,
                                    !.sets = inst[w].sets]
            ELSE [@ EXCEPT !.err = "KeyError", !.held = @ + 1]]
  /\ UNCHANGED <<entity, db, seq, clock, ef, df, cn>>

\* record.field = value, on a record that has a row (a new record is
\* given its values by its constructor).
Set(w, a) ==
  /\ inst[w].pc = "idle"
  /\ inst[w].t # ""
  /\ ~IsNone(inst[w].id)
  /\ Calls < MaxCalls
  /\ inst' = [inst EXCEPT ![w] =
       [@ EXCEPT !.data = (a[1] :> a[2]) @@ @, !.dirty = @ \cup {a[1]},
                 !.origin = IF @ = "created" THEN "saved" ELSE @,
                 !.sets = @ + 1]]
  /\ UNCHANGED <<entity, db, seq, clock, ef, df, cn>>

\* BaseModel.save, first statement: self.updated = DT.now().
SaveStamp(w, force) ==
  /\ inst[w].pc = "idle"
  /\ inst[w].t # ""
  /\ Calls < MaxCalls
  /\ force => IsNone(inst[w].id)
  /\ clock' = clock + 1
  /\ inst' = [inst EXCEPT ![w] =
       [StampUpdated(inst[w], clock') EXCEPT !.pc = "stamped", !.force = force,
                                             !.stamp = clock', !.err = "",
                                             !.op = "none", !.written = {}]]
  /\ UNCHANGED <<entity, db, seq, ef, df, cn>>

\* BaseModel.save, second statement: super().save().  Nothing to write:
\* no statement.  A record with a key: UPDATE of its row.  A record
\* without one: INSERT with the next key of the sequence.  The statement
\* done, _dirty is cleared; a constraint violated, the exception leaves
\* save before that.
SavePersist(w) ==
  /\ inst[w].pc = "stamped"
  /\ LET i  == inst[w]
         t  == i.t
         fd == FieldDict(i)
         done(op, id) == [i EXCEPT !.pc = "idle", !.id = id, !.dirty = {},
                                   !.force = FALSE, !.stamp = 0,
                                   !.op = op, !.written = DOMAIN fd, !.err = "",
                                   !.origin = IF op = "insert" THEN "created"
                                              ELSE "saved"]
         failed(op) == [i EXCEPT !.pc = "idle", !.op = op, !.written = {},
                                 !.force = FALSE, !.stamp = 0,
                                 !.err = "IntegrityError", !.origin = "failed"]
     IN IF DOMAIN fd = {} /\ ~i.force
          THEN /\ inst' = [inst EXCEPT ![w] = done("none", i.id)]
               /\ UNCHANGED <<db, seq>>
        ELSE IF ~IsNone(i.id) /\ ~i.force
          THEN IF Val(i.id) \notin DOMAIN db[t]
                 THEN /\ inst' = [inst EXCEPT ![w] = done("update", i.id)]
                      /\ UNCHANGED <<db, seq>>
               ELSE LET row == RowUpdated(t, db[t][Val(i.id)], fd)
                    IN IF ConstraintsOK(db, t, i.id, row)
                         THEN /\ db' = [db EXCEPT ![t][Val(i.id)] = row]
                              /\ inst' = [inst EXCEPT ![w] = done("update", i.id)]
                              /\ UNCHANGED seq
                         ELSE /\ inst' = [inst EXCEPT ![w] = failed("update")]
                              /\ UNCHANGED <<db, seq>>
        ELSE LET row == RowOf(t, fd)
                 id  == seq[t] + 1
             IN IF ConstraintsOK(db, t, None, row)
                  THEN /\ db' = [db EXCEPT ![t] = (id :> row) @@ @]
                       /\ seq' = [seq EXCEPT ![t] = id]
                       /\ inst' = [inst EXCEPT ![w] = done("insert", Some(id))]
                  ELSE /\ inst' = [inst EXCEPT ![w] = failed("insert")]
                       /\ UNCHANGED <<db, seq>>
  /\ UNCHANGED <<entity, clock, ef, df, cn>>

(***************************************************************************)
(* The specifications: the entity layer over the database the scenario has  *)
(* filled (Spec), and the enumerated field, the fixed-point field and the   *)
(* connection factory each on its own.  A record that has no key is saved   *)
(* as Model.create saves it, with force_insert=True; a record that has one  *)
(* is saved with save().                                                    *)
(***************************************************************************)
Init ==
  /\ entity \in Tables
  /\ db = ScenarioDb /\ seq = [t \in Tables |-> 1]
  /\ inst = [w \in Writers |-> NoInstance]
  /\ clock = 0
  /\ ef = EnumIdle
  /\ df = DecIdle
  /\ cn = ConnIdle

Next ==
  \/ \E w \in Writers : \E kw \in Kwargs(entity) : New(w, kw)
  \/ \E w \in Writers : \E id \in DOMAIN db[entity] : Load(w, id)
  \/ \E w \in Writers : \E a \in Assignments(entity) : Set(w, a)
  \/ \E w \in Writers : SaveStamp(w, IsNone(inst[w].id))
  \/ \E w \in Writers : SavePersist(w)

Spec == Init /\ [][Next]_vars

InitProbe ==
  /\ entity = "clients"
  /\ db = EmptyDb /\ seq = [t \in Tables |-> 0]
  /\ inst = [w \in Writers |-> NoInstance]
  /\ clock = 0
  /\ ef = EnumIdle
  /\ df = DecIdle
  /\ cn = ConnIdle

NextEnum ==
  \/ \E cls \in EnumClassNames : \E v \in EnumWriteInputs(cls) : EnumWrite(cls, v)
  \/ \E cls \in EnumClassNames :
       \E text \in {None} \cup { Some(x) : x \in AllNames \cup BadTexts } :
         EnumStore(cls, text)
  \/ EnumRead

SpecEnum == InitProbe /\ [][NextEnum]_vars

NextDecimal ==
  \/ \E f \in DecimalFields : \E v \in DecimalInputs : DecWrite(f, v)
  \/ DecRead

SpecDecimal == InitProbe /\ [][NextDecimal]_vars

NextConn ==
  \/ \E conf \in ConfInputs : get_db_connection(conf)
  \/ UseHandle
  \/ ServerFlip

SpecConn == InitProbe /\ [][NextConn]_vars


(***************************************************************************)
(* The claims.                                                              *)
(***************************************************************************)

\* Process w ends a save in this step.
Persists(w) == inst[w].pc = "stamped" /\ inst'[w].pc = "idle"

\* The row the statement of w's pending save would leave in its table.
PendingRow(w) ==
  LET i == inst[w]
  IN IF ~IsNone(i.id) /\ ~i.force /\ Val(i.id) \in DOMAIN db[i.t]
       THEN RowUpdated(i.t, db[i.t][Val(i.id)], FieldDict(i))
       ELSE RowOf(i.t, FieldDict(i))

\* The key of the row w's pending save would write, None for an INSERT.
PendingKey(w) == IF inst[w].force THEN None ELSE inst[w].id

\* A value read back equals the value written: an enum value by its
\* symbolic name, a decimal up to the rounding its field declares.
SameAsWritten(f, written, read) ==
  IF IsEnum(f)
    THEN IsNone(written) = IsNone(read)
         /\ (~IsNone(written) => Val(written).s = Val(read).s)
  ELSE IF f.kind = "decimal" THEN read = DecimalDbValue(written)
  ELSE read = written

\* C1: a record created and then reloaded by its key has field values equal
\* to the values written, for every entity type.
C1_RoundTrip ==
  \A w1 \in Writers, w2 \in Writers :
    ( /\ inst[w1].origin = "created"
      /\ inst[w2].origin = "loaded" /\ inst[w2].dirty = {} /\ inst[w2].pc = "idle"
      /\ inst[w2].id = inst[w1].id
      /\ inst[w2].data["updated"] = inst[w1].data["updated"] )
    => \A c \in DOMAIN inst[w1].data :
         SameAsWritten(Field(entity, c), inst[w1].data[c], inst[w2].data[c])

UniqueTitles ==
  \A t \in Tables : \A f \in Fields(t) : f.unique =>
    \A i \in DOMAIN db[t], j \in DOMAIN db[t] :
      i # j => db[t][i][f.name] # db[t][j][f.name]

\* Another stored row of w's table holds the title w's save would write.
TitleTaken(w) ==
  \E f \in Fields(inst[w].t) :
    /\ f.unique
    /\ \E j \in DOMAIN db[inst[w].t] :
         /\ Some(j) # PendingKey(w)
         /\ db[inst[w].t][j][f.name] = PendingRow(w)[f.name]

\* C3: a Client or EventType written with the title of another stored row
\* of its table fails with a constraint violation and persists nothing, so
\* titles stay unique, under every interleaving of the writers.
C3_DuplicateTitleRejected ==
  /\ []UniqueTitles
  /\ [][\A w \in Writers :
          (Persists(w) /\ TitleTaken(w))
          => (inst'[w].err = "IntegrityError" /\ db' = db /\ seq' = seq)]_vars

\* The case of C3: a process was refused a title that the other process
\* had inserted.
C3_Witness ==
  \E w1 \in Writers, w2 \in Writers :
    /\ w1 # w2
    /\ inst[w1].err = "IntegrityError" /\ inst[w1].op = "insert"
    /\ inst[w2].origin = "created"
    /\ "title" \in DOMAIN inst[w1].data
    /\ db[entity][Val(inst[w2].id)]["title"] = inst[w1].data["title"]

\* Every foreign key of every stored row is the key of a stored parent.
ForeignKeysValid ==
  \A t \in Tables : \A id \in DOMAIN db[t] : ForeignKeysOK(db, t, db[t][id])

\* w's save would write a foreign key that is no key of the parent table.
DanglingKey(w) ==
  \E f \in Fields(inst[w].t) :
    /\ f.kind = "fk"
    /\ ~IsNone(PendingRow(w)[f.name])
    /\ Val(PendingRow(w)[f.name]) \notin DOMAIN db[f.rel]

\* C4: a write whose foreign key names no stored parent fails and persists
\* nothing, so every foreign key of every stored row has its parent.
C4_ForeignKeysEnforced ==
  /\ []ForeignKeysValid
  /\ [][\A w \in Writers :
          (Persists(w) /\ DanglingKey(w))
          => (inst'[w].err = "IntegrityError" /\ db' = db /\ seq' = seq)]_vars

\* The case of C4: a process was refused a row whose foreign key names a
\* parent that is not stored.
C4_Witness ==
  \E w \in Writers :
    /\ inst[w].err = "IntegrityError" /\ inst[w].pc = "idle"
    /\ \E f \in Fields(entity) :
         /\ f.kind = "fk" /\ f.name \in DOMAIN inst[w].data
         /\ Val(inst[w].data[f.name]) \notin DOMAIN db[f.rel]

\* C5: decoding a stored text that is no declared name of the field's class
\* fails with a decode error; decoding null gives null without error, and
\* encoding null gives null.
C5_DecodeErrors ==
  /\ (ef.phase = "read" /\ IsNone(ef.stored)) => (ef.err = "" /\ IsNone(ef.out))
  /\ (ef.phase = "read" /\ ~IsNone(ef.stored)
        /\ Val(ef.stored) \notin DeclaredNames(ef.cls))
       => ef.err = "KeyError"
  /\ (ef.phase = "read" /\ ~IsNone(ef.stored)
        /\ Val(ef.stored) \in DeclaredNames(ef.cls))
       => ef.err = ""
  /\ (ef.src = "write" /\ IsNone(ef.py)) => IsNone(ef.stored)

\* The case of C5: a stored text that is no declared name was decoded.
C5_Witness ==
  /\ ef.phase = "read" /\ ef.src = "raw"
  /\ ~IsNone(ef.stored) /\ Val(ef.stored) \notin DeclaredNames(ef.cls)
  /\ ef.err = "KeyError"

\* C6: a declared name, encoded for storage and decoded again, gives that
\* same name, also when the name shares its code with another name.
C6_NameRoundTrip ==
  ( /\ ef.phase = "read" /\ ef.src = "write"
    /\ ~IsNone(ef.py) /\ Val(ef.py).kind = "str"
    /\ Val(ef.py).s \in DeclaredNames(ef.cls) )
  => (ef.err = "" /\ ~IsNone(ef.out) /\ Val(ef.out).s = Val(ef.py).s)

\* C7: a value written to a fixed-point field is read back rounded to
\* decimal_places places: a multiple of the quantum, at most half a quantum
\* from the value written, and the value itself when that is a multiple.
C7_StoredRounded ==
  (df.phase = "read" /\ ~IsNone(df.v)) =>
    /\ ~IsNone(df.out)
    /\ Val(df.out) % Quantum = 0
    /\ 2 * Abs(Val(df.out) - Val(df.v)) <= Quantum
    /\ (Val(df.v) % Quantum = 0 => df.out = df.v)

\* The case of C7: a value with more than decimal_places places was written
\* and read back.
C7_Witness ==
  /\ df.phase = "read" /\ ~IsNone(df.v)
  /\ Val(df.v) % Quantum # 0
  /\ df.out # df.v

\* The handle cannot connect: the server is down or refuses its parameters.
Refused == ~Accepts(cn.asked_up, cn.handle)

\* C8, as claimed: get_db_connection with an unreachable database or with
\* rejected credentials fails with a connection error, after one attempt.
C8_FactoryFails ==
  (cn.last = "get_db_connection" /\ Refused)
  => (cn.err = "OperationalError" /\ cn.attempts = 1)

\* C8, amended: get_db_connection attempts no connection and returns its
\* handle without error; the connection is attempted when the handle is
\* used, once for each use, and a refusal reaches the caller.
C8_FactoryIsLazy ==
  /\ cn.last = "get_db_connection"
       => (cn.err = "" /\ cn.attempts = 0 /\ ~cn.connected)
  /\ (cn.last = "use" /\ Refused) => cn.err = "OperationalError"
  /\ cn.attempts <= cn.uses

\* The case of C8: a handle to a database that refuses it was built, and
\* its use failed.
C8_Witness ==
  /\ cn.last = "use" /\ Refused
  /\ cn.err = "OperationalError" /\ cn.attempts = 1

====
